---------------------------- MODULE Spec2Model ----------------------------
(***************************************************************************)
(* A model of Kuona: the lexicon scorer (nlp/sentiment.py), the return     *)
(* aligner (data/prices.py) and the backtest endpoint (api/main.py).       *)
(*                                                                         *)
(* Text is a sequence of one-character strings; a token is the string made *)
(* of its characters.  Python floats are modelled as exact rationals       *)
(* <<n, d>> in lowest terms with d > 0; None is <<>> and a present value   *)
(* x is <<x>>.  A date is a day number.                                    *)
(***************************************************************************)
EXTENDS Integers, Sequences, FiniteSets, TLC

VARIABLES
    pc,               \* position of the operation under way
    text,             \* compute_features: its argument
    sentence_scores,  \* compute_features: the local list of that name
    features,         \* compute_features: the returned dict
    call_dt,          \* get_simple_returns: the parsed call date
    inclusive,        \* the provider treats the window's end as inclusive
    df,               \* get_simple_returns: the rows the provider returned
    returns,          \* get_simple_returns: what it returned
    events,           \* backtest_earnings: what list_events returned
    idx,              \* backtest_earnings: the loop's position in events
    fetched,          \* backtest_earnings: what get_simple_returns gave, per event
    sentiment_vals,   \* backtest_earnings: the local list of that name
    ret3_vals,        \* backtest_earnings: the local list of that name
    low_bucket,       \* backtest_earnings: the local list of that name
    high_bucket,      \* backtest_earnings: the local list of that name
    result            \* backtest_earnings: the outcome

vars == <<pc, text, sentence_scores, features, call_dt, inclusive, df, returns,
          events, idx, fetched, sentiment_vals, ret3_vals, low_bucket,
          high_bucket, result>>

textVars == <<text, sentence_scores, features>>
priceVars == <<call_dt, inclusive, df, returns>>
backtestVars == <<events, idx, fetched, sentiment_vals, ret3_vals, low_bucket,
                  high_bucket, result>>

-----------------------------------------------------------------------------
(* Bounds of the model.                                                    *)

MaxPieces == 3    \* pieces (words, separators) a generated text is made of
MaxRows == 3      \* rows of a generated price series
MaxEvents == 3    \* events list_events returns

-----------------------------------------------------------------------------
(* Exact arithmetic standing for Python's float arithmetic.                *)

None == <<>>
Some(x) == <<x>>

Abs(n) == IF n < 0 THEN -n ELSE n

RECURSIVE Gcd(_, _)
Gcd(a, b) == IF b = 0 THEN a ELSE Gcd(b, a % b)

\* n / d as a rational in lowest terms; Raised stands for ZeroDivisionError
\* (and for StatisticsError of an empty mean).
Raised == <<0, 0>>
Frac(n, d) ==
    IF d = 0 THEN Raised
    ELSE LET g == Gcd(Abs(n), Abs(d))
             s == IF d < 0 THEN -1 ELSE 1
         IN <<(s * n) \div g, (s * d) \div g>>

Zero == <<0, 1>>
One == <<1, 1>>
FromInt(n) == <<n, 1>>
IsRaised(a) == a[2] = 0

\* The operations reduce by common factors before they multiply.
RAdd(a, b) ==
    IF IsRaised(a) \/ IsRaised(b) THEN Raised
    ELSE LET g == Gcd(a[2], b[2])
         IN Frac(a[1] * (b[2] \div g) + b[1] * (a[2] \div g), (a[2] \div g) * b[2])
RNeg(a) == <<-a[1], a[2]>>
RSub(a, b) == RAdd(a, RNeg(b))
RMul(a, b) ==
    IF IsRaised(a) \/ IsRaised(b) THEN Raised
    ELSE LET g == Gcd(Abs(a[1]), b[2])
             h == Gcd(Abs(b[1]), a[2])
         IN Frac((a[1] \div g) * (b[1] \div h), (a[2] \div h) * (b[2] \div g))
RDiv(a, b) ==
    IF IsRaised(a) \/ IsRaised(b) \/ b[1] = 0 THEN Raised
    ELSE RMul(a, Frac(b[2], b[1]))
RLe(a, b) ==
    LET g == Gcd(a[2], b[2])
    IN a[1] * (b[2] \div g) <= b[1] * (a[2] \div g)
RLt(a, b) ==
    LET g == Gcd(a[2], b[2])
    IN a[1] * (b[2] \div g) < b[1] * (a[2] \div g)

RECURSIVE RSum(_)
RSum(xs) == IF xs = <<>> THEN Zero ELSE RAdd(Head(xs), RSum(Tail(xs)))

\* statistics.mean: raises StatisticsError on an empty list.
Mean(xs) == IF xs = <<>> THEN Raised ELSE RDiv(RSum(xs), FromInt(Len(xs)))

\* sum((x - m) ** 2 for x in xs)
SumSq(xs, m) ==
    RSum([i \in 1..Len(xs) |-> RMul(RSub(xs[i], m), RSub(xs[i], m))])

\* A non-negative real known by its square: the value of a square root.
Sqrt(v) == [sq |-> v]

\* statistics.pstdev: the square root of the population variance.
PStdev(xs) == Sqrt(RDiv(SumSq(xs, Mean(xs)), FromInt(Len(xs))))

-----------------------------------------------------------------------------
(* nlp/sentiment.py                                                        *)

POSITIVE_WORDS ==
    {"strong", "growth", "record", "robust", "confident",
     "positive", "improved", "solid", "ahead"}

NEGATIVE_WORDS ==
    {"weak", "miss", "decline", "soft", "headwinds",
     "pressure", "downturn", "negative", "risk"}

UNCERTAINTY_WORDS ==
    {"uncertain", "uncertainty", "risk", "risks", "volatility",
     "might", "could", "may", "headwinds", "challenge", "pressure"}

UpperCase == <<"A", "B", "C", "D", "E", "F", "G", "H", "I", "J", "K", "L", "M",
               "N", "O", "P", "Q", "R", "S", "T", "U", "V", "W", "X", "Y", "Z">>
LowerCase == <<"a", "b", "c", "d", "e", "f", "g", "h", "i", "j", "k", "l", "m",
               "n", "o", "p", "q", "r", "s", "t", "u", "v", "w", "x", "y", "z">>

\* str.lower() on one character
Lower(c) ==
    IF \E i \in 1..26 : UpperCase[i] = c
    THEN LowerCase[CHOOSE i \in 1..26 : UpperCase[i] = c]
    ELSE c

\* [a-zA-Z]
IsLetter(c) == \E i \in 1..26 : c = UpperCase[i] \/ c = LowerCase[i]

\* [.!?]
IsTerminator(c) == c \in {".", "!", "?"}

\* what str.strip() removes
IsSpace(c) == c \in {" ", "\n", "\t"}

\* re.split(pattern, s) for a pattern matching runs of the characters that
\* satisfy the test: the fragments between the runs, an empty fragment where s
\* starts or ends with a run.  cur is the fragment being read.
RECURSIVE SplitLetters(_, _)
SplitLetters(s, cur) ==
    IF s = <<>> THEN <<cur>>
    ELSE IF IsLetter(Head(s)) THEN SplitLetters(Tail(s), cur \o Head(s))
    ELSE IF Len(s) > 1 /\ ~IsLetter(s[2]) THEN SplitLetters(Tail(s), cur)
    ELSE <<cur>> \o SplitLetters(Tail(s), "")

RECURSIVE SplitTerminators(_, _)
SplitTerminators(s, cur) ==
    IF s = <<>> THEN <<cur>>
    ELSE IF ~IsTerminator(Head(s)) THEN SplitTerminators(Tail(s), Append(cur, Head(s)))
    ELSE IF Len(s) > 1 /\ IsTerminator(s[2]) THEN SplitTerminators(Tail(s), cur)
    ELSE <<cur>> \o SplitTerminators(Tail(s), <<>>)

RECURSIVE LStrip(_)
LStrip(s) == IF s # <<>> /\ IsSpace(Head(s)) THEN LStrip(Tail(s)) ELSE s

RECURSIVE RStrip(_)
RStrip(s) ==
    IF s # <<>> /\ IsSpace(s[Len(s)]) THEN RStrip(SubSeq(s, 1, Len(s) - 1)) ELSE s

Strip(s) == RStrip(LStrip(s))

\* [x for x in xs if x is not empty], for lists of strings and of sequences
RECURSIVE NonEmpty(_, _)
NonEmpty(xs, empty) ==
    IF xs = <<>> THEN <<>>
    ELSE IF Head(xs) = empty THEN NonEmpty(Tail(xs), empty)
    ELSE <<Head(xs)>> \o NonEmpty(Tail(xs), empty)

\* The tokenizer without text.lower(): tokens keep their case.
TokenizeKeepCase(s) == NonEmpty(SplitLetters(s, ""), "")

_tokenize(s) ==
    NonEmpty(SplitLetters([i \in 1..Len(s) |-> Lower(s[i])], ""), "")

_split_sentences(s) ==
    LET raw_sentences == SplitTerminators(s, <<>>)
    IN NonEmpty([i \in 1..Len(raw_sentences) |-> Strip(raw_sentences[i])], <<>>)

\* sum(1 for t in tokens if t in words)
Hits(tokens, words) == Cardinality({i \in 1..Len(tokens) : tokens[i] \in words})

\* The score without the division by the sentence's length.
SentimentUnnormalised(tokens) ==
    IF tokens = <<>> THEN Zero
    ELSE FromInt(Hits(tokens, POSITIVE_WORDS) - Hits(tokens, NEGATIVE_WORDS))

_sentence_sentiment(tokens) ==
    IF tokens = <<>> THEN Zero
    ELSE Frac(Hits(tokens, POSITIVE_WORDS) - Hits(tokens, NEGATIVE_WORDS), Len(tokens))

\* sentiment_mean and sentiment_std of the list sentence_scores
SentimentMean(scores) == IF scores # <<>> THEN Mean(scores) ELSE Zero

SentimentStd(scores) ==
    IF scores # <<>>
    THEN IF Len(scores) > 1 THEN PStdev(scores) ELSE Sqrt(Zero)
    ELSE Sqrt(Zero)

\* The unguarded division: hits / token_count whatever token_count is.
UncertaintyUnguarded(all_tokens) ==
    Frac(Hits(all_tokens, UNCERTAINTY_WORDS), Len(all_tokens))

\* uncertainty_score: the fraction of tokens in the uncertainty word list
UncertaintyScore(all_tokens) ==
    IF Len(all_tokens) > 0
    THEN Frac(Hits(all_tokens, UNCERTAINTY_WORDS), Len(all_tokens))
    ELSE Zero

\* compute_features(text): the returned dict, with the list sentence_scores.
\* error is TRUE when an exception would have left the function.
compute_features(t) ==
    LET sentences == _split_sentences(t)
        toks == [i \in 1..Len(sentences) |-> _tokenize(sentences[i])]
        RECURSIVE Extend(_)
        Extend(i) == IF i = 0 THEN <<>> ELSE Extend(i - 1) \o toks[i]
        all_tokens == Extend(Len(sentences))
        scored == NonEmpty(toks, <<>>)
        scores == [i \in 1..Len(scored) |-> _sentence_sentiment(scored[i])]
        sentiment_mean == SentimentMean(scores)
        sentiment_std == SentimentStd(scores)
        uncertainty_score == UncertaintyScore(all_tokens)
    IN [sentence_scores |-> scores,
        token_count |-> Len(all_tokens),
        sentiment_mean |-> sentiment_mean,
        sentiment_std |-> sentiment_std,
        uncertainty_score |-> uncertainty_score,
        error |-> \/ IsRaised(sentiment_mean)
                  \/ IsRaised(sentiment_std.sq)
                  \/ IsRaised(uncertainty_score)
                  \/ \E i \in 1..Len(scores) : IsRaised(scores[i])]

\* The texts compute_features is applied to: every concatenation of at most
\* MaxPieces pieces (lexicon words, other words, separators), and the text of
\* the end-to-end example.
Pieces ==
    {<<"S", "t", "r", "o", "n", "g">>, <<"w", "e", "a", "k">>,
     <<"r", "i", "s", "k">>, <<"m", "a", "y">>, <<"o", "k">>,
     <<" ">>, <<".">>, <<"!">>, <<",">>, <<"7">>}

ExampleText ==
    <<"S", "t", "r", "o", "n", "g", " ", "g", "r", "o", "w", "t",
      "h", " ", "t", "h", "i", "s", " ", "q", "u", "a", "r", "t",
      "e", "r", ".", " ", "H", "o", "w", "e", "v", "e", "r", ",",
      " ", "r", "i", "s", "k", "s", " ", "a", "n", "d", " ", "u",
      "n", "c", "e", "r", "t", "a", "i", "n", "t", "y", " ", "r",
      "e", "m", "a", "i", "n", ".">>

RECURSIVE Texts(_)
Texts(n) ==
    IF n = 0 THEN {<<>>}
    ELSE LET shorter == Texts(n - 1)
         IN shorter \cup {t \o p : t \in shorter, p \in Pieces}

TextInputs == Texts(MaxPieces) \cup {ExampleText}

IdleText == text = <<>> /\ sentence_scores = <<>> /\ features = None
IdlePrices == call_dt = 0 /\ inclusive = FALSE /\ df = <<>> /\ returns = None
IdleBacktest ==
    /\ events = <<>> /\ idx = 0 /\ fetched = <<>>
    /\ sentiment_vals = <<>> /\ ret3_vals = <<>>
    /\ low_bucket = <<>> /\ high_bucket = <<>> /\ result = None

InitFeatures ==
    /\ pc = "features"
    /\ text \in TextInputs
    /\ sentence_scores = <<>>
    /\ features = None
    /\ IdlePrices
    /\ IdleBacktest

ComputeFeaturesCall ==
    /\ pc = "features"
    /\ LET f == compute_features(text)
       IN /\ sentence_scores' = f.sentence_scores
          /\ features' = Some(f)
    /\ pc' = "features_done"
    /\ UNCHANGED <<text, priceVars, backtestVars>>

NextFeatures == ComputeFeaturesCall

SpecFeatures == InitFeatures /\ [][NextFeatures]_vars

-----------------------------------------------------------------------------
(* data/prices.py.  A row of the provider's frame is [date, close].        *)

\* horizons=(1, 3, 5)
Horizons == <<1, 3, 5>>

\* max(horizons)
RECURSIVE Max(_)
Max(xs) ==
    IF Len(xs) = 1 THEN xs[1]
    ELSE LET m == Max(Tail(xs)) IN IF xs[1] >= m THEN xs[1] ELSE m

\* The window's end without the buffer: call_dt + max_h.
WindowEndNoBuffer(call) == call + Max(Horizons)

\* end = call_dt + timedelta(days=max_h + 5)
WindowEnd(call) == call + Max(Horizons) + 5

\* df.sort_index(): rows ascending by date (insertion sort, stable)
RECURSIVE Insert(_, _)
Insert(row, rows) ==
    IF rows = <<>> THEN <<row>>
    ELSE IF row.date < Head(rows).date THEN <<row>> \o rows
    ELSE <<Head(rows)>> \o Insert(row, Tail(rows))

RECURSIVE SortIndex(_)
SortIndex(rows) ==
    IF rows = <<>> THEN <<>>
    ELSE Insert(rows[Len(rows)], SortIndex(SubSeq(rows, 1, Len(rows) - 1)))

\* df[df.index >= dt]
RECURSIVE OnOrAfter(_, _)
OnOrAfter(rows, dt) ==
    IF rows = <<>> THEN <<>>
    ELSE IF Head(rows).date >= dt THEN <<Head(rows)>> \o OnOrAfter(Tail(rows), dt)
    ELSE OnOrAfter(Tail(rows), dt)

\* The anchor read from the unfiltered frame: the first row's close.
FirstCloseUnfiltered(sorted, start) == sorted[1].close

\* p0 = df_after_call["Close"].iloc[0]
DayZeroClose(sorted, start) == OnOrAfter(sorted, start)[1].close

\* One pass of the loop over horizons: the value stored under return_{h}d.
HorizonReturn(df_after_call, call, h, p0) ==
    LET df_target == OnOrAfter(df_after_call, call + h)
    IN IF df_target = <<>> THEN None
       ELSE Some(Frac(df_target[1].close - p0, p0))

\* get_simple_returns, from the frame the provider returned: None, or the dict
\* as a function from each horizon h to the value of return_{h}d.
get_simple_returns(call, frame) ==
    IF frame = <<>> THEN None
    ELSE LET sorted == SortIndex(frame)
             df_after_call == OnOrAfter(sorted, call)
         IN IF df_after_call = <<>> THEN None
            ELSE LET p0 == DayZeroClose(sorted, call)
                 IN Some([k \in 1..Len(Horizons) |->
                            HorizonReturn(df_after_call, call, Horizons[k], p0)])

\* returns.get("return_3d") on (returns or {})
Get(rets, h) ==
    IF rets = None THEN None
    ELSE LET ks == {k \in 1..Len(Horizons) : Horizons[k] = h}
         IN IF ks = {} THEN None ELSE rets[1][CHOOSE k \in ks : TRUE]

\* What the provider may return: closing prices are positive.
Closes == {99, 100, 102}
CallDates == {0, 3}

\* Every date-ascending frame of at most n rows with dates in lo..hi.
RECURSIVE Frames(_, _, _)
Frames(n, lo, hi) ==
    IF n = 0 \/ lo > hi THEN {<<>>}
    ELSE {<<>>} \cup
         UNION {{<<[date |-> d, close |-> c]>> \o rest :
                    c \in Closes, rest \in Frames(n - 1, d + 1, hi)} :
                d \in lo..hi}

\* The provider's answer for the window [start, end): any ascending frame, a
\* row before the window's start included.
AnyFrames(start, end) == Frames(MaxRows, start - 1, end - 1)

\* Monday..Friday are the days 0..4 of the week.
IsWeekday(d) == d % 7 < 5

\* The provider's answer when every weekday of the window trades: one row per
\* weekday from start to end, end included or not, at any closing prices.
RECURSIVE DayFrames(_, _)
DayFrames(lo, hi) ==
    IF lo > hi THEN {<<>>}
    ELSE IF IsWeekday(lo)
    THEN {<<[date |-> lo, close |-> c]>> \o rest :
             c \in {100, 102}, rest \in DayFrames(lo + 1, hi)}
    ELSE DayFrames(lo + 1, hi)

WeekdayFrames(start, end, incl) == DayFrames(start, IF incl THEN end ELSE end - 1)

InitReturns ==
    /\ pc = "returns"
    /\ call_dt \in CallDates
    /\ inclusive = FALSE
    /\ df = <<>>
    /\ returns = None
    /\ IdleText
    /\ IdleBacktest

InitWeekdays ==
    /\ pc = "returns"
    /\ call_dt \in 0..6
    /\ inclusive \in BOOLEAN
    /\ df = <<>>
    /\ returns = None
    /\ IdleText
    /\ IdleBacktest

\* get_simple_returns(ticker, call_date), the provider answering with frame
GetSimpleReturns(frame) ==
    /\ pc = "returns"
    /\ df' = frame
    /\ returns' = get_simple_returns(call_dt, frame)
    /\ pc' = "returns_done"
    /\ UNCHANGED <<call_dt, inclusive, textVars, backtestVars>>

GetSimpleReturnsAny ==
    /\ pc = "returns"
    /\ \E frame \in AnyFrames(call_dt, WindowEnd(call_dt)) : GetSimpleReturns(frame)

GetSimpleReturnsWeekdays ==
    /\ pc = "returns"
    /\ \E frame \in WeekdayFrames(call_dt, WindowEnd(call_dt), inclusive) :
          GetSimpleReturns(frame)

NextReturns == GetSimpleReturnsAny
NextWeekdays == GetSimpleReturnsWeekdays

SpecReturns == InitReturns /\ [][NextReturns]_vars
SpecWeekdays == InitWeekdays /\ [][NextWeekdays]_vars

-----------------------------------------------------------------------------
(* api/main.py: backtest_earnings.  An event is [ticker, call_date,        *)
(* transcript]; a pair of the sorted list is <<sentiment, return>>.        *)

\* What list_events returns: events sorted by (ticker, call_date), no two with
\* the same key; here one ticker, a call every 7 days from day 2 (a Wednesday).
Transcripts ==
    {<<"S", "t", "r", "o", "n", "g", ".">>, <<"w", "e", "a", "k", ".">>,
     <<"o", "k", ".">>}

CallDate(k) == 2 + 7 * (k - 1)

RECURSIVE EventLists(_)
EventLists(n) ==
    IF n = 0 THEN {<<>>}
    ELSE LET shorter == EventLists(n - 1)
         IN shorter \cup
            {Append(es, [ticker |-> "AAPL", call_date |-> CallDate(n),
                         transcript |-> t]) :
                es \in {e \in shorter : Len(e) = n - 1}, t \in Transcripts}

\* What the provider may answer for one event of the backtest: nothing, rows
\* that stop before call + 3, and rows that give a 3-day return of -1/100
\* or of 1/50.
EventFrames(call) ==
    {<<>>,
     <<[date |-> call, close |-> 100], [date |-> call + 1, close |-> 102]>>,
     <<[date |-> call, close |-> 100], [date |-> call + 1, close |-> 102],
       [date |-> call + 5, close |-> 99]>>,
     <<[date |-> call, close |-> 100], [date |-> call + 3, close |-> 102]>>}

\* if not events: raise HTTPException(status_code=404, ...)
NoEventsUnchecked(evs) == FALSE
NoEvents(evs) == evs = <<>>

\* One pass of the loop with the missing return counted as 0.
LoopBodyZeroFill(s_vals, r_vals, s, r3) ==
    IF r3 = None THEN <<Append(s_vals, s), Append(r_vals, Zero)>>
    ELSE <<Append(s_vals, s), Append(r_vals, r3[1])>>

\* One pass of the loop: the lists sentiment_vals and ret3_vals after it.
LoopBody(s_vals, r_vals, s, r3) ==
    IF r3 = None THEN <<s_vals, r_vals>>
    ELSE <<Append(s_vals, s), Append(r_vals, r3[1])>>

\* The test of the denominators that looks at the sentiment series only.
ZeroDenSentimentOnly(den_s, den_r) == den_s = Zero
\* if den_s == 0 or den_r == 0
ZeroDen(den_s, den_r) == den_s = Zero \/ den_r = Zero

\* num / (den_s**0.5 * den_r**0.5): a rational over a square root; a zero
\* denominator raises ZeroDivisionError.
Quotient(num, den_s, den_r) ==
    IF RMul(den_s, den_r) = Zero \/ IsRaised(RMul(den_s, den_r))
    THEN [num |-> Raised, den |-> Sqrt(Zero)]
    ELSE [num |-> num, den |-> Sqrt(RMul(den_s, den_r))]

\* math.isnan: no quotient of exact arithmetic is NaN
IsNaN(c) == FALSE

\* corr_sentiment_return_3d
Corr(s_vals, r_vals) ==
    LET n == Len(s_vals)
    IN IF n < 2 THEN None
       ELSE LET mean_s == Mean(s_vals)
                mean_r == Mean(r_vals)
                num == RSum([i \in 1..n |->
                               RMul(RSub(s_vals[i], mean_s), RSub(r_vals[i], mean_r))])
                den_s == SumSq(s_vals, mean_s)
                den_r == SumSq(r_vals, mean_r)
            IN IF ZeroDen(den_s, den_r) THEN None
               ELSE LET corr == Quotient(num, den_s, den_r)
                    IN IF IsNaN(corr) THEN None ELSE Some(corr)

\* The order of the whole pair: sentiment first, then return.
PairBefore(p, q) == RLt(p[1], q[1]) \/ (p[1] = q[1] /\ RLt(p[2], q[2]))
\* key=lambda x: x[0]
KeyBefore(p, q) == RLt(p[1], q[1])

\* sorted(..., key=...): stable, an element goes after those not above it
RECURSIVE InsertPair(_, _)
InsertPair(p, ps) ==
    IF ps = <<>> THEN <<p>>
    ELSE IF KeyBefore(p, Head(ps)) THEN <<p>> \o ps
    ELSE <<Head(ps)>> \o InsertPair(p, Tail(ps))

RECURSIVE Sorted(_)
Sorted(ps) ==
    IF ps = <<>> THEN <<>>
    ELSE InsertPair(ps[Len(ps)], Sorted(SubSeq(ps, 1, Len(ps) - 1)))

\* zip(sentiment_vals, ret3_vals)
Zip(s_vals, r_vals) == [i \in 1..Len(s_vals) |-> <<s_vals[i], r_vals[i]>>]

\* The midpoint rounded up.
MidCeil(n) == (n + 1) \div 2
\* mid = len(sorted_pairs) // 2
Mid(n) == n \div 2

_bucket_stats(bucket) ==
    IF bucket = <<>> THEN [count |-> 0, avg_return_3d |-> None]
    ELSE LET returns_only == [i \in 1..Len(bucket) |-> bucket[i][2]]
         IN [count |-> Len(bucket), avg_return_3d |-> Some(Mean(returns_only))]

InitBacktest ==
    /\ pc = "backtest"
    /\ events \in EventLists(MaxEvents)
    /\ idx = 0
    /\ fetched = <<>>
    /\ sentiment_vals = <<>>
    /\ ret3_vals = <<>>
    /\ low_bucket = <<>>
    /\ high_bucket = <<>>
    /\ result = None
    /\ IdleText
    /\ IdlePrices

\* events = list_events(...); if not events: raise 404
BacktestStart ==
    /\ pc = "backtest"
    /\ IF NoEvents(events)
       THEN /\ result' = Some([kind |-> "HTTPException", status_code |-> 404])
            /\ pc' = "backtest_done"
            /\ idx' = idx
       ELSE /\ result' = result
            /\ pc' = "loop"
            /\ idx' = 1
    /\ UNCHANGED <<events, fetched, sentiment_vals, ret3_vals, low_bucket,
                   high_bucket, textVars, priceVars>>

\* One pass of "for ticker, call_date, transcript in events", the provider
\* answering get_simple_returns with frame.
BacktestLoop ==
    /\ pc = "loop"
    /\ idx <= Len(events)
    /\ \E frame \in EventFrames(events[idx].call_date) :
          LET features_dict == compute_features(events[idx].transcript)
              rets == get_simple_returns(events[idx].call_date, frame)
              r3 == Get(rets, 3)
              lists == LoopBody(sentiment_vals, ret3_vals,
                                features_dict.sentiment_mean, r3)
          IN /\ fetched' = Append(fetched, rets)
             /\ sentiment_vals' = lists[1]
             /\ ret3_vals' = lists[2]
    /\ idx' = idx + 1
    /\ UNCHANGED <<pc, events, low_bucket, high_bucket, result, textVars, priceVars>>

\* After the loop: 400 without rows, else the correlation, the split and the
\* BacktestResult.  rows grows with sentiment_vals and is empty when it is.
BacktestFinish ==
    /\ pc = "loop"
    /\ idx > Len(events)
    /\ IF sentiment_vals = <<>>
       THEN /\ result' = Some([kind |-> "HTTPException", status_code |-> 400])
            /\ UNCHANGED <<low_bucket, high_bucket>>
       ELSE LET sorted_pairs == Sorted(Zip(sentiment_vals, ret3_vals))
                mid == Mid(Len(sorted_pairs))
                low == SubSeq(sorted_pairs, 1, mid)
                high == SubSeq(sorted_pairs, mid + 1, Len(sorted_pairs))
            IN /\ low_bucket' = low
               /\ high_bucket' = high
               /\ result' = Some([kind |-> "BacktestResult",
                                  events_count |-> Len(sentiment_vals),
                                  corr_sentiment_return_3d |->
                                      Corr(sentiment_vals, ret3_vals),
                                  low_sentiment |-> _bucket_stats(low),
                                  high_sentiment |-> _bucket_stats(high)])
    /\ pc' = "backtest_done"
    /\ UNCHANGED <<events, idx, fetched, sentiment_vals, ret3_vals, textVars,
                   priceVars>>

NextBacktest == BacktestStart \/ BacktestLoop \/ BacktestFinish

SpecBacktest == InitBacktest /\ [][NextBacktest]_vars

-----------------------------------------------------------------------------
(* Properties of compute_features, under SpecFeatures.                     *)

FeaturesDone == pc = "features_done"

InUnit(a) == RLe(Zero, a) /\ RLe(a, One)
InSigned(a) == RLe(FromInt(-1), a) /\ RLe(a, One)

\* C6: for any text, every per-sentence score of compute_features lies in
\* [-1, 1], so does sentiment_mean, and uncertainty_score lies in [0, 1].
C6_SentimentBounds ==
    FeaturesDone =>
        /\ \A i \in 1..Len(sentence_scores) :
              ~IsRaised(sentence_scores[i]) /\ InSigned(sentence_scores[i])
        /\ ~IsRaised(features[1].sentiment_mean)
        /\ InSigned(features[1].sentiment_mean)
        /\ ~IsRaised(features[1].uncertainty_score)
        /\ InUnit(features[1].uncertainty_score)

\* A text with a sentence scoring -1, another scoring above 0, and a positive
\* uncertainty score.
C6_Witness ==
    /\ FeaturesDone
    /\ \E i \in 1..Len(sentence_scores) : sentence_scores[i] = FromInt(-1)
    /\ \E i \in 1..Len(sentence_scores) : RLt(Zero, sentence_scores[i])
    /\ RLt(Zero, features[1].uncertainty_score)

\* C7 as stated: the example text gives the scores 1/3 and -1/5, a mean of
\* about 0.0667 (1/15), and 2 uncertainty hits among 8 tokens, 0.25.
C7_ExampleAsStated ==
    (FeaturesDone /\ text = ExampleText) =>
        /\ Len(_split_sentences(text)) = 2
        /\ sentence_scores = <<Frac(1, 3), Frac(-1, 5)>>
        /\ features[1].sentiment_mean = Frac(1, 15)
        /\ features[1].token_count = 8
        /\ features[1].uncertainty_score = Frac(1, 4)

\* C7 amended: the example text has two sentences of 4 and 5 tokens, with the
\* scores (2 - 0)/4 = 1/2 and (0 - 0)/5 = 0, a mean of 1/4, and 2 uncertainty
\* hits (risks, uncertainty) among 9 tokens, 2/9.
C7_Example ==
    (FeaturesDone /\ text = ExampleText) =>
        /\ Len(_split_sentences(text)) = 2
        /\ sentence_scores = <<Frac(1, 2), Zero>>
        /\ features[1].sentiment_mean = Frac(1, 4)
        /\ features[1].token_count = 9
        /\ features[1].uncertainty_score = Frac(2, 9)

C7_Witness == FeaturesDone /\ text = ExampleText /\ features[1].token_count > 0

\* C8: compute_features never fails; sentiment_std is 0 with fewer than two
\* scored sentences, sentiment_mean is 0 with none, uncertainty_score is 0 with
\* no token, and the empty text gives token_count 0 and zeros throughout.
C8_ZeroFallbacks ==
    FeaturesDone =>
        /\ ~features[1].error
        /\ Len(sentence_scores) < 2 => features[1].sentiment_std = Sqrt(Zero)
        /\ Len(sentence_scores) = 0 => features[1].sentiment_mean = Zero
        /\ features[1].token_count = 0 => features[1].uncertainty_score = Zero
        /\ text = <<>> =>
              /\ features[1].token_count = 0
              /\ features[1].sentiment_mean = Zero
              /\ features[1].sentiment_std = Sqrt(Zero)
              /\ features[1].uncertainty_score = Zero

\* A non-empty text without any token: separators only.
C8_Witness ==
    /\ FeaturesDone
    /\ text # <<>>
    /\ features[1].token_count = 0
    /\ features[1].uncertainty_score = Zero

-----------------------------------------------------------------------------
(* Properties of get_simple_returns, under SpecReturns and SpecWeekdays.   *)

ReturnsDone == pc = "returns_done"

\* The positions in df of the rows dated dt or later.
RowsFrom(dt) == {i \in 1..Len(df) : df[i].date >= dt}
FirstFrom(dt) == CHOOSE i \in RowsFrom(dt) : \A j \in RowsFrom(dt) : i <= j

\* C2: get_simple_returns yields nothing when the frame is empty or has no row
\* dated call_date or later; otherwise, anchored at the close of the first row
\* dated call_date or later, each horizon h has a return exactly when a row is
\* dated call_date + h or later, equal to (close of the first such row -
\* anchor) / anchor, whatever the other horizons give.  The closes 100 @ day 0,
\* 102 @ day 1, 99 @ day 3 give 0.02, -0.01 and no 5-day return.
C2_ReturnAlignment ==
    ReturnsDone =>
        /\ (df = <<>> \/ RowsFrom(call_dt) = {}) <=> returns = None
        /\ returns # None =>
              LET anchor == df[FirstFrom(call_dt)].close
              IN \A k \in 1..Len(Horizons) :
                    LET h == Horizons[k]
                    IN IF RowsFrom(call_dt + h) = {}
                       THEN returns[1][k] = None
                       ELSE returns[1][k] =
                               Some(Frac(df[FirstFrom(call_dt + h)].close - anchor,
                                         anchor))
        /\ (/\ call_dt = 0
            /\ df = <<[date |-> 0, close |-> 100], [date |-> 1, close |-> 102],
                      [date |-> 3, close |-> 99]>>)
              => returns = Some(<<Some(Frac(2, 100)), Some(Frac(-1, 100)), None>>)

\* A frame with a row before the call date, where the 1-day return is present
\* and differs from zero while the 5-day return is absent.
C2_Witness ==
    /\ ReturnsDone
    /\ returns # None
    /\ df[1].date < call_dt
    /\ Get(returns, 1) # None
    /\ Get(returns, 1) # Some(Zero)
    /\ Get(returns, 5) = None

\* C9: when every weekday of the window from call_date to call_date +
\* max(horizons) + 5 days has a row, the window's end included or not, every
\* horizon of (1, 3, 5) has a return, whatever weekday the call date is.
C9_BufferCoversHorizons ==
    ReturnsDone =>
        /\ returns # None
        /\ \A k \in 1..Len(Horizons) : returns[1][k] # None

\* A call on a Saturday with the window's end excluded: the anchor is
\* Monday's close and the 5-day return is present.
C9_Witness ==
    /\ ReturnsDone
    /\ call_dt = 5
    /\ ~inclusive
    /\ df # <<>> /\ df[1].date = 7
    /\ Get(returns, 5) # None

-----------------------------------------------------------------------------
(* Properties of backtest_earnings, under SpecBacktest.                    *)

BacktestDone == pc = "backtest_done"
IsSummary == result # None /\ result[1].kind = "BacktestResult"
IsError(code) ==
    /\ result # None
    /\ result[1].kind = "HTTPException"
    /\ result[1].status_code = code

\* The listed events whose 3-day return is defined, and how many they are.
Defined == {i \in 1..Len(fetched) : Get(fetched[i], 3) # None}
NDefined == Cardinality(Defined)

\* The <<sentiment_mean, 3-day return>> of the event at position i.
PairOf(i) ==
    <<compute_features(events[i].transcript).sentiment_mean, Get(fetched[i], 3)[1]>>

\* The pairs of the first k listed events with a defined return, in listing
\* order.
RECURSIVE DefinedPairs(_)
DefinedPairs(k) ==
    IF k = 0 THEN <<>>
    ELSE IF k \in Defined THEN Append(DefinedPairs(k - 1), PairOf(k))
    ELSE DefinedPairs(k - 1)

AllConstant(xs) == \A i, j \in 1..Len(xs) : xs[i] = xs[j]

\* avg is the arithmetic mean of the returns of bucket, absent for none.
IsMeanOf(avg, bucket) ==
    IF bucket = <<>> THEN avg = None
    ELSE /\ avg # None
         /\ RMul(avg[1], FromInt(Len(bucket))) =
               RSum([i \in 1..Len(bucket) |-> bucket[i][2]])

\* C1: with n >= 1 listed events having a defined 3-day return, the summary
\* has low_sentiment.count = floor(n/2), high_sentiment.count = n - floor(n/2),
\* and the two counts add up to n = events_count.
C1_SplitSizes ==
    (BacktestDone /\ NDefined >= 1) =>
        /\ IsSummary
        /\ result[1].low_sentiment.count = NDefined \div 2
        /\ result[1].high_sentiment.count = NDefined - (NDefined \div 2)
        /\ result[1].low_sentiment.count + result[1].high_sentiment.count = NDefined
        /\ result[1].events_count = NDefined

\* Three events with a defined return: 1 in the low bucket, 2 in the high one.
C1_Witness ==
    /\ BacktestDone
    /\ NDefined = 3
    /\ IsSummary
    /\ result[1].low_sentiment.count = 1
    /\ result[1].high_sentiment.count = 2

C4_Outcomes ==
    BacktestDone =>
        /\ result # None
        /\ IsError(404) <=> events = <<>>
        /\ IsError(400) <=> (events # <<>> /\ NDefined = 0)
        /\ IsSummary <=> (events # <<>> /\ NDefined >= 1)
        /\ IsSummary => result[1].events_count >= 1

\* A non-empty listing, every event without a 3-day return: bad request.
C4_Witness ==
    /\ BacktestDone
    /\ Len(events) >= 2
    /\ NDefined = 0
    /\ IsError(400)

\* C5: an event without price data or without a 3-day return is skipped and
\* the loop goes on: every listed event is processed, events_count is the
\* number of listed events with a defined 3-day return, and the correlation
\* and the bucket averages are those of exactly these events, no missing
\* return counted as 0.
C5_SkipsMissingReturns ==
    /\ pc = "loop" => (idx >= 1 /\ Len(fetched) = idx - 1)
    /\ (BacktestDone /\ events # <<>>) =>
          LET pairs == DefinedPairs(Len(events))
          IN /\ Len(fetched) = Len(events)
             /\ sentiment_vals = [i \in 1..Len(pairs) |-> pairs[i][1]]
             /\ ret3_vals = [i \in 1..Len(pairs) |-> pairs[i][2]]
             /\ IsSummary =>
                   /\ result[1].events_count = NDefined
                   /\ Len(low_bucket) + Len(high_bucket) = NDefined
                   /\ \A q \in {pairs[i] : i \in 1..Len(pairs)} :
                         Cardinality({i \in 1..Len(pairs) : pairs[i] = q}) =
                         Cardinality({i \in 1..Len(low_bucket) : low_bucket[i] = q})
                         + Cardinality({i \in 1..Len(high_bucket) : high_bucket[i] = q})
                   /\ IsMeanOf(result[1].low_sentiment.avg_return_3d, low_bucket)
                   /\ IsMeanOf(result[1].high_sentiment.avg_return_3d, high_bucket)
                   /\ result[1].corr_sentiment_return_3d =
                         Corr([i \in 1..Len(pairs) |-> pairs[i][1]],
                              [i \in 1..Len(pairs) |-> pairs[i][2]])

\* The first event has no price data, the second has prices but no 3-day
\* return, the third has one: a summary of one event.
C5_Witness ==
    /\ BacktestDone
    /\ Len(events) = 3
    /\ fetched[1] = None
    /\ fetched[2] # None /\ Get(fetched[2], 3) = None
    /\ Get(fetched[3], 3) # None
    /\ IsSummary
    /\ result[1].events_count = 1

\* The place of pair i of ps in the stable ascending order by sentiment: after
\* the pairs of lower sentiment and the earlier pairs of equal sentiment.
Rank(ps, i) ==
    1 + Cardinality({j \in 1..Len(ps) : RLt(ps[j][1], ps[i][1])})
      + Cardinality({j \in 1..(i - 1) : ps[j][1] = ps[i][1]})

\* C10: the low bucket is the first floor(n/2) events of the stable ascending
\* order by sentiment_mean alone and the high bucket the rest: no low
\* sentiment is above a high one, events of equal sentiment keep their input
\* order whatever their returns, and each bucket's average is the arithmetic
\* mean of its returns, absent only for an empty bucket.
C10_StableMedianSplit ==
    (BacktestDone /\ IsSummary) =>
        LET ps == Zip(sentiment_vals, ret3_vals)
            n == Len(ps)
            ordered == low_bucket \o high_bucket
        IN /\ Len(low_bucket) = n \div 2
           /\ Len(ordered) = n
           /\ \A i \in 1..n : ordered[Rank(ps, i)] = ps[i]
           /\ \A i \in 1..Len(low_bucket), j \in 1..Len(high_bucket) :
                 RLe(low_bucket[i][1], high_bucket[j][1])
           /\ IsMeanOf(result[1].low_sentiment.avg_return_3d, low_bucket)
           /\ IsMeanOf(result[1].high_sentiment.avg_return_3d, high_bucket)
           /\ result[1].high_sentiment.avg_return_3d # None

\* Two events of equal sentiment at the boundary, the earlier-listed one with
\* the higher return: it is the one in the low bucket.
C10_Witness ==
    /\ BacktestDone
    /\ IsSummary
    /\ Len(sentiment_vals) = 2
    /\ sentiment_vals[1] = sentiment_vals[2]
    /\ RLt(ret3_vals[2], ret3_vals[1])
    /\ low_bucket = <<<<sentiment_vals[1], ret3_vals[1]>>>>
    /\ high_bucket = <<<<sentiment_vals[2], ret3_vals[2]>>>>

=============================================================================
